---- MODULE Spec2Model ----
(***************************************************************************)
(* A model of the patch-application engine of the Camoufox build scripts:  *)
(*   scripts/safe-patch.py  the single-patch "safe apply" (main and the    *)
(*                          functions it calls), one external command per  *)
(*                          step;                                          *)
(*   scripts/_mixin.py      patch() (every command through run() with     *)
(*                          exit_on_fail=False), script_exit(),            *)
(*                          list_patches(), is_bootstrap_patch().          *)
(* The external tools (git, patch, find) are the environment: the exit     *)
(* status of every command is an input, and its effect on the working tree *)
(* and on the repository is the effect the tool has for that status.  Where *)
(* a property depends on what the patches say (probing twice, applying a   *)
(* set twice), the patches are known and the status of a command follows   *)
(* from the patch and the tree.                                            *)
(***************************************************************************)
EXTENDS Integers, Sequences, FiniteSets, TLC

(***************************************************************************)
(* Bounds of the model.                                                    *)
(***************************************************************************)
\* file contents are 0 (the file is absent) or one of 1..MaxContent
MaxContent == 3
\* the batch applies at most MaxPatches patches
MaxPatches == 3
\* list_patches is given at most MaxFiles patch files
MaxFiles == 3
\* is_patch_applied is called at most MaxProbes times in a row
MaxProbes == 3

(***************************************************************************)
(* The working tree and the repository.                                    *)
(***************************************************************************)
\* "f" is the file the patches change, "u" a file of the user's, and
\* RejPaths are the paths that match find's -name '*.rej'.
Paths == {"f", "u", "f.rej"}
RejPaths == {"f.rej"}
Content == 0..MaxContent
NoFiles == [p \in Paths |-> 0]
\* what `make setup` committed: the file f, at content 1
BaseSnapshot == [p \in Paths |-> IF p = "f" THEN 1 ELSE 0]

VARIABLES
    prog,       \* "safe": safe-patch.py main; "batch": _mixin.patch() on each patch in turn;
                \* "probe": is_patch_applied called again and again; "sort": list_patches;
                \* "battery": set_battery; "find": find_src_dir; "run": run
    pc,         \* the position of the program
    exitcode,   \* the status the process ended with (-1 while it runs)
    cwd,        \* the process working directory: "root" or "src"
    tree,       \* the working tree: path -> content
    index,      \* git's index: path -> content (0: not tracked)
    commits,    \* the revisions, each a snapshot path -> content
    head,       \* the revision HEAD resolves to (0: none)
    tag,        \* the revision the checkpoint label resolves to (0: not attached)
    is_git,     \* os.path.exists(".git") in the source tree
    no_revert,  \* args.no_revert
    reverse,    \* patch()'s parameter reverse
    npatches,   \* the number of patches of the batch
    cur,        \* the patch being applied (its place in the ordered set)
    applied,    \* what is_patch_applied returned
    success,    \* what apply_patch returned
    rejFound,   \* whether apply_patch / patch() found a conflict artifact
    cmds,       \* history: the external commands executed, in order
    ckptTree,   \* history: the tree when create_checkpoint was called
    cause,      \* history: why the run ended
    files,      \* list_files: the patch files in the order os.walk yields them
    order,      \* what list_patches returned
    patches,    \* what the patch files say, when the model knows it (<<>>: any patch)
    sigint,     \* history: the step a user interrupt arrived at ("": none arrived)
    answer,     \* history: what the user typed at the prompt ("-": not asked)
    kwargs,     \* set_battery: keyword argument -> the value it was given
    target,     \* set_battery: the kind of object given as target
    msgs,       \* the messages sent on the browser channel, in order
    raised,     \* the exception set_battery raised ("none": it returned)
    tree0,      \* history: the working tree the run started from
    tag0,       \* history: what the checkpoint label resolved to at the start
    fs,         \* find_src_dir: directory -> name -> "none", "file" or "dir"
    root_dir,   \* find_src_dir's parameter root_dir
    version,    \* find_src_dir's parameter version ("": None)
    release,    \* find_src_dir's parameter release ("": None)
    folders,    \* what os.listdir(root_dir) returned
    src_dir,    \* the path find_src_dir returned
    cmd,        \* run's parameter cmd
    exit_on_fail, \* run's parameter exit_on_fail
    do_print,   \* run's parameter do_print
    retval,     \* what run returned (-1: None)
    printed,    \* the lines run printed
    wrote       \* history: the conflict artifacts the last patch command wrote

vars == <<prog, pc, exitcode, cwd, tree, index, commits, head, tag, is_git,
          no_revert, reverse, npatches, cur, applied, success, rejFound,
          cmds, ckptTree, cause, files, order, patches, sigint, answer,
          kwargs, target, msgs, raised, tree0, tag0, fs, root_dir,
          version, release, folders, src_dir, cmd, exit_on_fail, do_print,
          retval, printed, wrote>>

repo == <<index, commits, head, tag>>
start == <<tree0, tag0>>
params == <<prog, is_git, no_revert, reverse, npatches, patches, start,
            kwargs, target>>
sent == <<msgs, raised>>
sortVars == <<files, order>>
findVars == <<fs, root_dir, version, release, folders, src_dir>>
runVars == <<cmd, exit_on_fail, do_print, retval, printed>>

\* an exit status: 0, or nonzero
Status == {0, 1}

HasRej(t) == \E p \in RejPaths : t[p] # 0

Cmd(p, c, rc) == [p |-> p, c |-> c, rc |-> rc]
Ran(c) == \E i \in 1..Len(cmds) : cmds[i].c = c

(***************************************************************************)
(* The effects of the external tools.                                      *)
(***************************************************************************)
\* What a patch file says, when the model knows it: the patch changes the
\* file f from one content to another.  It applies forward to a tree whose
\* f has the first content, and in reverse to a tree whose f has the second.
Patch == {p \in [from : 1..MaxContent, to : 1..MaxContent] : p.from # p.to}
\* the patch the running command is given
ThePatch == patches[IF prog = "probe" THEN 1 ELSE cur]

\* the exit status of patch --dry-run (forward, reverse) and of an apply
\* command on the tree t: any status when the patch is not known
ForwardStatus(t) ==
    IF patches = <<>> THEN Status
    ELSE {IF t["f"] = ThePatch.from THEN 0 ELSE 1}
ReverseStatus(t) ==
    IF patches = <<>> THEN Status
    ELSE {IF t["f"] = ThePatch.to THEN 0 ELSE 1}

\* an apply that succeeds changes the file the patch is about
ApplyOk(t) == {[t EXCEPT !["f"] = c] : c \in (1..MaxContent) \ {t["f"]}}

\* the trees a successful forward (reverse) application of the patch makes
Forward(t) ==
    IF patches = <<>> THEN ApplyOk(t)
    ELSE {[t EXCEPT !["f"] = ThePatch.to]}
Backward(t) ==
    IF patches = <<>> THEN ApplyOk(t)
    ELSE {[t EXCEPT !["f"] = ThePatch.from]}

\* a command without its --dry-run flag: the tree becomes what the
\* application makes of it
DryRun_forReal(t, made) == made
\* patch --dry-run: the tree stays as it is, whatever the application
\* would have made of it
DryRun(t, made) == t

\* git apply --3way that fails changes nothing, or leaves conflict markers
\* in the file ("Applied patch to 'f' with conflicts", status 1)
GitApplyFail(t) == {t} \cup ApplyOk(t)

\* patch --fuzz that fails may have applied some hunks, and saves the
\* hunks it could not place in the files R (none, when it skipped the whole
\* patch)
PatchFail(t, R) ==
    {[p \in Paths |-> IF p \in R THEN 1 ELSE IF p = "f" THEN c ELSE t[p]] :
        c \in {t["f"]} \cup (1..MaxContent)}

\* the trees a failed apply command of patch() leaves: of a known patch
\* that does not match the file, git apply changes nothing and patch
\* saves the hunk as a conflict artifact
GitApplyRejects(t) == IF patches = <<>> THEN GitApplyFail(t) ELSE {t}
PatchWrites == IF patches = <<>> THEN SUBSET RejPaths ELSE {RejPaths}
PatchRejects(t, R) ==
    IF patches = <<>> THEN PatchFail(t, R)
    ELSE {[p \in Paths |-> IF p \in R THEN 1 ELSE t[p]]}

\* git add -A: the index becomes the working tree
AddAll(t) == t

\* git commit -a: modified and deleted tracked files are staged, then the
\* index is committed
CommitAll(t, idx) == [p \in Paths |-> IF idx[p] # 0 THEN t[p] ELSE 0]

\* git reset --hard <rev>: tracked files get the revision's content, files
\* tracked by the index and not in the revision are removed, untracked
\* files stay
ResetHard(t, idx, snap) ==
    [p \in Paths |-> IF snap[p] # 0 THEN snap[p]
                     ELSE IF idx[p] # 0 THEN 0 ELSE t[p]]

\* git clean -fd: untracked files are removed
CleanUntracked(t, idx) == [p \in Paths |-> IF idx[p] = 0 THEN 0 ELSE t[p]]

\* find . -name '*.rej' -type f -delete
DeleteRej(t) == [p \in Paths |-> IF p \in RejPaths THEN 0 ELSE t[p]]

(***************************************************************************)
(* safe-patch.py                                                           *)
(***************************************************************************)
ExitSuccess == 0
ExitFailure == 1
\* a KeyboardInterrupt handled like any other exception
ExitInterrupted_generic == 1
ExitInterrupted == 130

\* temp_cd without its try/finally: leaving the body does not change back
Exit_noRestore(code, why) ==
    /\ pc' = "done"
    /\ exitcode' = code
    /\ cause' = why
    /\ UNCHANGED cwd

\* sys.exit(code) from inside `with temp_cd(src_dir)` or outside it: the
\* finally clause of temp_cd restores the working directory
Exit(code, why) ==
    /\ pc' = "done"
    /\ exitcode' = code
    /\ cause' = why
    /\ cwd' = "root"

\* input(...).strip().lower() on the answers the model draws
RawResponses == {"y", "Y", " yes ", "YES", "n", "", "no", "yes please"}
Normalize(raw) ==
    CASE raw \in {"y", "Y"} -> "y"
      [] raw \in {" yes ", "YES"} -> "yes"
      [] raw = "n" -> "n"
      [] raw = "no" -> "no"
      [] raw = "yes please" -> "yes please"
      [] OTHER -> ""
\* a prompt that takes every answer beginning with "y" for a yes
Confirms_prefix(raw) == Normalize(raw) \in {"y", "yes", "yes please"}
Confirms(raw) == Normalize(raw) \in {"y", "yes"}

\* main: the patch file must exist
CheckPatchFile ==
    /\ prog = "safe" /\ pc = "start"
    /\ \E exists \in BOOLEAN :
        IF exists
        THEN pc' = "find_src" /\ UNCHANGED <<exitcode, cause, cwd>>
        ELSE Exit(ExitFailure, "no_patch_file")
    /\ UNCHANGED <<tree, repo, params, cur, applied, success, rejFound, cmds,
                   ckptTree, sigint, answer, sent, sortVars, findVars, runVars, wrote>>

\* main: find_src_dir returns, or raises AssertionError / FileNotFoundError
\* (caught in main), or another error (caught in __main__)
FindSrcDir ==
    /\ prog = "safe" /\ pc = "find_src"
    /\ \E r \in {"ok", "AssertionError", "FileNotFoundError", "OSError"} :
        CASE r = "ok" -> pc' = "temp_cd" /\ UNCHANGED <<exitcode, cause, cwd>>
          [] r = "OSError" -> Exit(ExitFailure, "unexpected")
          [] OTHER -> Exit(ExitFailure, "no_src_dir")
    /\ UNCHANGED <<tree, repo, params, cur, applied, success, rejFound, cmds,
                   ckptTree, sigint, answer, sent, sortVars, findVars, runVars, wrote>>

\* temp_cd: the directory must exist (AssertionError otherwise, nothing
\* changed), then os.chdir
TempCd ==
    /\ prog = "safe" /\ pc = "temp_cd"
    /\ \E exists \in BOOLEAN :
        IF exists
        THEN pc' = "is_git" /\ cwd' = "src" /\ UNCHANGED <<exitcode, cause>>
        ELSE Exit(ExitFailure, "unexpected")
    /\ UNCHANGED <<tree, repo, params, cur, applied, success, rejFound, cmds,
                   ckptTree, sigint, answer, sent, sortVars, findVars, runVars, wrote>>

\* main that goes on without looking for .git
IsGitRepo_unchecked ==
    /\ prog = "safe" /\ pc = "is_git"
    /\ pc' = "probe_fwd"
    /\ UNCHANGED <<exitcode, cause, cwd, tree, repo, params, cur, applied,
                   success, rejFound, cmds, ckptTree, sigint, answer, sent, sortVars, findVars, runVars, wrote>>

\* main: is_git_repo()
IsGitRepo ==
    /\ prog = "safe" /\ pc = "is_git"
    /\ IF is_git
       THEN pc' = "probe_fwd" /\ UNCHANGED <<exitcode, cause, cwd>>
       ELSE Exit(ExitFailure, "not_git")
    /\ UNCHANGED <<tree, repo, params, cur, applied, success, rejFound, cmds,
                   ckptTree, sigint, answer, sent, sortVars, findVars, runVars, wrote>>

\* a main that asks for confirmation whatever is_patch_applied returned
AfterIsPatchApplied_asks(result) ==
    IF prog = "probe" THEN "probe_ret" ELSE "confirm"

\* where is_patch_applied returns to: main goes on to the prompt or to
\* create_checkpoint
AfterIsPatchApplied(result) ==
    IF prog = "probe" THEN "probe_ret"
    ELSE IF result THEN "confirm" ELSE "add"

\* is_patch_applied: patch -p1 --dry-run --force --silent
ProbeForward ==
    /\ prog \in {"safe", "probe"} /\ pc = "probe_fwd"
    /\ \E rc \in ForwardStatus(tree) :
        /\ cmds' = Append(cmds, Cmd(cur, "dry_fwd", rc))
        /\ \E made \in (IF rc = 0 THEN Forward(tree) ELSE {tree}) :
              tree' = DryRun(tree, made)
        /\ pc' = IF rc = 0 THEN AfterIsPatchApplied(FALSE) ELSE "probe_rev"
    /\ applied' = FALSE
    /\ UNCHANGED <<exitcode, cause, cwd, repo, params, cur, success,
                   rejFound, ckptTree, sigint, answer, sent, sortVars, findVars, runVars, wrote>>

\* is_patch_applied that returns True whatever the reverse dry-run says
ProbeReverse_always ==
    /\ prog \in {"safe", "probe"} /\ pc = "probe_rev"
    /\ \E rc \in ReverseStatus(tree) : cmds' = Append(cmds, Cmd(cur, "dry_rev", rc))
    /\ applied' = TRUE
    /\ pc' = AfterIsPatchApplied(TRUE)
    /\ UNCHANGED <<exitcode, cause, cwd, tree, repo, params, cur, success,
                   rejFound, ckptTree, sigint, answer, sent, sortVars, findVars, runVars, wrote>>

\* is_patch_applied: patch -p1 -R --dry-run --force --silent
ProbeReverse ==
    /\ prog \in {"safe", "probe"} /\ pc = "probe_rev"
    /\ \E rc \in ReverseStatus(tree) :
        /\ cmds' = Append(cmds, Cmd(cur, "dry_rev", rc))
        /\ \E made \in (IF rc = 0 THEN Backward(tree) ELSE {tree}) :
              tree' = DryRun(tree, made)
        /\ applied' = (rc = 0)
        /\ pc' = AfterIsPatchApplied(rc = 0)
    /\ UNCHANGED <<exitcode, cause, cwd, repo, params, cur, success,
                   rejFound, ckptTree, sigint, answer, sent, sortVars, findVars, runVars, wrote>>

\* the caller that probes the same patch again
ProbeAgain ==
    /\ prog = "probe" /\ pc = "probe_ret"
    /\ cur < MaxProbes
    /\ cur' = cur + 1
    /\ pc' = "probe_fwd"
    /\ UNCHANGED <<exitcode, cause, cwd, tree, repo, params, applied, success,
                   rejFound, cmds, ckptTree, sigint, answer, sent, sortVars, findVars, runVars, wrote>>

ProbeNext == ProbeForward \/ ProbeReverse \/ ProbeAgain

\* main: "Continue anyway? [y/N]"
Confirm ==
    /\ prog = "safe" /\ pc = "confirm"
    /\ \E raw \in RawResponses :
        /\ answer' = raw
        /\ IF Confirms(raw)
           THEN pc' = "add" /\ UNCHANGED <<exitcode, cause, cwd>>
           ELSE Exit(ExitSuccess, "declined")
    /\ UNCHANGED <<tree, repo, params, cur, applied, success, rejFound, cmds,
                   ckptTree, sigint, sent, sortVars, findVars, runVars, wrote>>

\* create_checkpoint: git add -A, its status not looked at
GitAdd ==
    /\ prog = "safe" /\ pc = "add"
    /\ \E rc \in Status :
        /\ cmds' = Append(cmds, Cmd(cur, "add", rc))
        /\ index' = IF rc = 0 THEN AddAll(tree) ELSE index
    /\ ckptTree' = tree
    /\ pc' = "commit"
    /\ UNCHANGED <<exitcode, cause, cwd, tree, commits, head, tag, params, cur,
                   applied, success, rejFound, sigint, answer, sent, sortVars, findVars, runVars, wrote>>

\* create_checkpoint: git commit -a --allow-empty, its status not looked at
GitCommit ==
    /\ prog = "safe" /\ pc = "commit"
    /\ \E rc \in Status :
        /\ cmds' = Append(cmds, Cmd(cur, "commit", rc))
        /\ IF rc = 0
           THEN /\ commits' = Append(commits, CommitAll(tree, index))
                /\ index' = CommitAll(tree, index)
                /\ head' = Len(commits) + 1
           ELSE UNCHANGED <<commits, index, head>>
    /\ pc' = "tag"
    /\ UNCHANGED <<exitcode, cause, cwd, tree, tag, params, cur, applied,
                   success, rejFound, ckptTree, sigint, answer, sent, sortVars, findVars, runVars, wrote>>

\* git tag -f run with check=False: a failed tag is not noticed
GitTag_unchecked ==
    /\ prog = "safe" /\ pc = "tag"
    /\ \E rc \in Status :
        /\ head = 0 => rc # 0
        /\ cmds' = Append(cmds, Cmd(cur, "tag", rc))
        /\ tag' = IF rc = 0 THEN head ELSE tag
    /\ pc' = "git_apply"
    /\ UNCHANGED <<exitcode, cause, cwd, tree, index, commits, head, params, cur,
                   applied, success, rejFound, ckptTree, sigint, answer, sent, sortVars, findVars, runVars, wrote>>

\* create_checkpoint: git tag -f with check=True (CalledProcessError on a
\* nonzero status, caught in __main__), then get_current_git_ref
GitTag ==
    /\ prog = "safe" /\ pc = "tag"
    /\ \E rc \in Status :
        /\ head = 0 => rc # 0
        /\ cmds' = Append(cmds, Cmd(cur, "tag", rc))
        /\ IF rc = 0
           THEN /\ tag' = head
                /\ pc' = "git_apply"
                /\ UNCHANGED <<exitcode, cause, cwd>>
           ELSE /\ Exit(ExitFailure, "unexpected")
                /\ UNCHANGED tag
    /\ UNCHANGED <<tree, index, commits, head, params, cur, applied, success,
                   rejFound, ckptTree, sigint, answer, sent, sortVars, findVars, runVars, wrote>>

\* apply_patch that runs git apply --3way a second time when it failed
GitApply_retry ==
    /\ prog = "safe" /\ pc = "git_apply"
    /\ \E rc \in Status :
        /\ cmds' = Append(cmds, Cmd(cur, "git_apply", rc))
        /\ IF rc = 0
           THEN /\ tree' \in ApplyOk(tree)
                /\ index' = [index EXCEPT !["f"] = tree'["f"]]
                /\ success' = TRUE
                /\ Exit(ExitSuccess, "applied")
           ELSE /\ tree' \in GitApplyFail(tree)
                /\ pc' = IF Ran("git_apply") THEN "patch" ELSE "git_apply"
                /\ UNCHANGED <<index, success, exitcode, cause, cwd>>
    /\ UNCHANGED <<commits, head, tag, params, cur, applied, rejFound,
                   ckptTree, sigint, answer, sent, sortVars, findVars, runVars, wrote>>

\* apply_patch: git apply --3way --whitespace=fix; main exits 0 on success
GitApply ==
    /\ prog = "safe" /\ pc = "git_apply"
    /\ \E rc \in Status :
        /\ cmds' = Append(cmds, Cmd(cur, "git_apply", rc))
        /\ IF rc = 0
           THEN /\ tree' \in ApplyOk(tree)
                /\ index' = [index EXCEPT !["f"] = tree'["f"]]
                /\ success' = TRUE
                /\ Exit(ExitSuccess, "applied")
           ELSE /\ tree' \in GitApplyFail(tree)
                /\ pc' = "patch"
                /\ UNCHANGED <<index, success, exitcode, cause, cwd>>
    /\ UNCHANGED <<commits, head, tag, params, cur, applied, rejFound,
                   ckptTree, sigint, answer, sent, sortVars, findVars, runVars, wrote>>

\* apply_patch that searches for conflict artifacts whatever the status of
\* patch --fuzz was
PatchFuzz_searches ==
    /\ prog = "safe" /\ pc = "patch"
    /\ \E rc \in Status :
        /\ cmds' = Append(cmds, Cmd(cur, "patch", rc))
        /\ \E R \in SUBSET RejPaths :
            /\ tree' \in (IF rc = 0 THEN ApplyOk(tree) ELSE PatchFail(tree, R))
            /\ wrote' = IF rc = 0 THEN {} ELSE R
    /\ pc' = "find"
    /\ UNCHANGED <<success, exitcode, cause, cwd, repo, params, cur, applied,
                   rejFound, ckptTree, sigint, answer, sent, sortVars, findVars, runVars>>

\* apply_patch: patch -p1 --fuzz=2 --forward; main exits 0 on success
PatchFuzz ==
    /\ prog = "safe" /\ pc = "patch"
    /\ \E rc \in Status :
        /\ cmds' = Append(cmds, Cmd(cur, "patch", rc))
        /\ IF rc = 0
           THEN /\ tree' \in ApplyOk(tree)
                /\ wrote' = {}
                /\ success' = TRUE
                /\ Exit(ExitSuccess, "applied")
           ELSE /\ \E R \in SUBSET RejPaths :
                    tree' \in PatchFail(tree, R) /\ wrote' = R
                /\ pc' = "find"
                /\ UNCHANGED <<success, exitcode, cause, cwd>>
    /\ UNCHANGED <<repo, params, cur, applied, rejFound, ckptTree, sigint, answer, sent, sortVars, findVars, runVars>>

\* apply_patch: find . -name '*.rej' -type f; False is returned whether or
\* not its output is empty
FindRej ==
    /\ prog = "safe" /\ pc = "find"
    /\ cmds' = Append(cmds, Cmd(cur, "find", 0))
    /\ rejFound' = HasRej(tree)
    /\ success' = FALSE
    /\ pc' = "failed"
    /\ UNCHANGED <<exitcode, cause, cwd, tree, repo, params, cur, applied,
                   ckptTree, sigint, answer, sent, sortVars, findVars, runVars, wrote>>

\* main: the apply failed; --no-revert leaves the tree as it is
ApplyFailed ==
    /\ prog = "safe" /\ pc = "failed"
    /\ IF no_revert
       THEN Exit(ExitFailure, "not_reverted")
       ELSE pc' = "reset" /\ UNCHANGED <<exitcode, cause, cwd>>
    /\ UNCHANGED <<tree, repo, params, cur, applied, success, rejFound, cmds,
                   ckptTree, sigint, answer, sent, sortVars, findVars, runVars, wrote>>

\* revert_to_checkpoint that goes on to git clean whatever the reset returned
GitReset_unchecked ==
    /\ prog = "safe" /\ pc = "reset"
    /\ \E rc \in Status :
        /\ tag = 0 => rc # 0
        /\ cmds' = Append(cmds, Cmd(cur, "reset", rc))
        /\ IF rc = 0
           THEN /\ tree' = ResetHard(tree, index, commits[tag])
                /\ index' = commits[tag]
                /\ head' = tag
           ELSE UNCHANGED <<tree, index, head>>
    /\ pc' = "clean"
    /\ UNCHANGED <<exitcode, cause, cwd, commits, tag, params, cur, applied,
                   success, rejFound, ckptTree, sigint, answer, sent, sortVars, findVars, runVars, wrote>>

\* revert_to_checkpoint: git reset --hard <label>; sys.exit(1) on failure
GitReset ==
    /\ prog = "safe" /\ pc = "reset"
    /\ \E rc \in Status :
        /\ tag = 0 => rc # 0
        /\ cmds' = Append(cmds, Cmd(cur, "reset", rc))
        /\ IF rc = 0
           THEN /\ tree' = ResetHard(tree, index, commits[tag])
                /\ index' = commits[tag]
                /\ head' = tag
                /\ pc' = "clean"
                /\ UNCHANGED <<exitcode, cause, cwd>>
           ELSE /\ Exit(ExitFailure, "revert_failed")
                /\ UNCHANGED <<tree, index, head>>
    /\ UNCHANGED <<commits, tag, params, cur, applied, success, rejFound,
                   ckptTree, sigint, answer, sent, sortVars, findVars, runVars, wrote>>

\* revert_to_checkpoint: git clean -fd, its status not looked at
GitClean ==
    /\ prog = "safe" /\ pc = "clean"
    /\ \E rc \in Status :
        /\ cmds' = Append(cmds, Cmd(cur, "clean", rc))
        /\ tree' = IF rc = 0 THEN CleanUntracked(tree, index) ELSE tree
    /\ pc' = "cleanup"
    /\ UNCHANGED <<exitcode, cause, cwd, repo, params, cur, applied, success,
                   rejFound, ckptTree, sigint, answer, sent, sortVars, findVars, runVars, wrote>>

\* cleanup_rej_files, then main's sys.exit(1)
CleanupRej ==
    /\ prog = "safe" /\ pc = "cleanup"
    /\ \E rc \in Status :
        /\ cmds' = Append(cmds, Cmd(cur, "delete_rej", rc))
        /\ tree' = IF rc = 0 THEN DeleteRej(tree) ELSE tree
    /\ Exit(ExitFailure, "reverted")
    /\ UNCHANGED <<repo, params, cur, applied, success, rejFound, ckptTree,
                   sigint, answer, sent, sortVars, findVars, runVars, wrote>>

SafeRunning == prog = "safe" /\ pc # "done"
\* the steps that run an external command or read the terminal
CommandSteps == {"probe_fwd", "probe_rev", "confirm", "add", "commit", "tag",
                 "git_apply", "patch", "find", "reset", "clean", "cleanup"}

\* __main__: KeyboardInterrupt
Interrupt ==
    /\ SafeRunning
    /\ sigint' = pc
    /\ Exit(ExitInterrupted, "interrupt")
    /\ UNCHANGED <<tree, repo, params, cur, applied, success, rejFound, cmds,
                   ckptTree, answer, sent, sortVars, findVars, runVars, wrote>>

\* apply_patch: a KeyboardInterrupt raised while a conflict artifact is read
\* and shown is caught by the bare `except: pass`, and the run goes on
ShowRejInterrupted ==
    /\ prog = "safe" /\ pc = "failed" /\ rejFound
    /\ sigint = ""
    /\ sigint' = "show_rej"
    /\ UNCHANGED <<pc, exitcode, cause, cwd, tree, repo, params, cur, applied,
                   success, rejFound, cmds, ckptTree, answer, sent, sortVars, findVars, runVars, wrote>>

\* __main__: any other exception (the tool is not installed, stdin is closed)
Unexpected ==
    /\ SafeRunning /\ pc \in CommandSteps
    /\ Exit(ExitFailure, "unexpected")
    /\ UNCHANGED <<tree, repo, params, cur, applied, success, rejFound, cmds,
                   ckptTree, sigint, answer, sent, sortVars, findVars, runVars, wrote>>

SafeNext ==
    \/ CheckPatchFile \/ FindSrcDir \/ TempCd \/ IsGitRepo
    \/ ProbeForward \/ ProbeReverse \/ Confirm
    \/ GitAdd \/ GitCommit \/ GitTag
    \/ GitApply \/ PatchFuzz \/ FindRej \/ ApplyFailed
    \/ GitReset \/ GitClean \/ CleanupRej
    \/ Interrupt \/ ShowRejInterrupted \/ Unexpected

(***************************************************************************)
(* _mixin.py: patch(patchfile, reverse, silent, fuzz), called on each      *)
(* patch of the ordered set in turn.                                       *)
(***************************************************************************)
\* patch() returns to its caller, which goes on to the next patch
Return ==
    /\ pc' = "b_call"
    /\ cur' = cur + 1
    /\ UNCHANGED <<exitcode, cause, cwd>>

\* script_exit that prints the elapsed time and returns
ScriptExit_returns(statuscode, why) == Return

\* script_exit(statuscode): sys.exit
ScriptExit(statuscode, why) ==
    /\ Exit(statuscode, why)
    /\ UNCHANGED cur

\* patch() that goes to the patch command at once
AfterProbe_patch == "b_patch"

\* what follows the probe: git apply in a repository when not reversing,
\* the patch command otherwise
AfterProbe == IF is_git /\ ~reverse THEN "b_git_apply" ELSE "b_patch"

\* the caller: patch() on the next patch, or the end of the set
BatchCall ==
    /\ prog = "batch" /\ pc = "b_call"
    /\ IF cur > npatches
       THEN Exit(ExitSuccess, "batch_done")
       ELSE /\ pc' = IF reverse THEN AfterProbe ELSE "b_dry_fwd"
            /\ UNCHANGED <<exitcode, cause, cwd>>
    /\ UNCHANGED <<tree, repo, params, cur, applied, success, rejFound, cmds,
                   ckptTree, sigint, answer, sent, sortVars, findVars, runVars, wrote>>

\* patch(): patch -p1 --dry-run --force --silent
BatchDryForward ==
    /\ prog = "batch" /\ pc = "b_dry_fwd"
    /\ \E rc \in ForwardStatus(tree) :
        /\ cmds' = Append(cmds, Cmd(cur, "dry_fwd", rc))
        /\ \E made \in (IF rc = 0 THEN Forward(tree) ELSE {tree}) :
              tree' = DryRun(tree, made)
        /\ pc' = IF rc # 0 THEN "b_dry_rev" ELSE AfterProbe
    /\ applied' = FALSE
    /\ UNCHANGED <<exitcode, cause, cwd, repo, params, cur, success,
                   rejFound, ckptTree, sigint, answer, sent, sortVars, findVars, runVars, wrote>>

\* patch(): patch -p1 -R --dry-run --force --silent; an applied patch is
\* skipped
BatchDryReverse ==
    /\ prog = "batch" /\ pc = "b_dry_rev"
    /\ \E rc \in ReverseStatus(tree) :
        /\ cmds' = Append(cmds, Cmd(cur, "dry_rev", rc))
        /\ \E made \in (IF rc = 0 THEN Backward(tree) ELSE {tree}) :
              tree' = DryRun(tree, made)
        /\ applied' = (rc = 0)
        /\ IF rc = 0
           THEN Return
           ELSE pc' = AfterProbe /\ UNCHANGED <<exitcode, cause, cwd, cur>>
    /\ UNCHANGED <<repo, params, success, rejFound, ckptTree, sigint, answer, sent, sortVars, findVars, runVars, wrote>>

\* patch(): git apply --3way --whitespace=fix
BatchGitApply ==
    /\ prog = "batch" /\ pc = "b_git_apply"
    /\ \E rc \in ForwardStatus(tree) :
        /\ cmds' = Append(cmds, Cmd(cur, "git_apply", rc))
        /\ IF rc = 0
           THEN /\ tree' \in Forward(tree)
                /\ index' = [index EXCEPT !["f"] = tree'["f"]]
                /\ Return
           ELSE /\ tree' \in GitApplyRejects(tree)
                /\ pc' = "b_patch"
                /\ UNCHANGED <<index, exitcode, cause, cwd, cur>>
    /\ UNCHANGED <<commits, head, tag, params, applied, success, rejFound,
                   ckptTree, sigint, answer, sent, sortVars, findVars, runVars, wrote>>

\* patch(): patch -p1 --fuzz (with -R when reversing, --forward otherwise)
BatchPatch ==
    /\ prog = "batch" /\ pc = "b_patch"
    /\ \E rc \in (IF reverse THEN ReverseStatus(tree) ELSE ForwardStatus(tree)) :
        /\ cmds' = Append(cmds, Cmd(cur, IF reverse THEN "patch_rev" ELSE "patch", rc))
        /\ IF rc = 0
           THEN /\ tree' \in (IF reverse THEN Backward(tree) ELSE Forward(tree))
                /\ wrote' = {}
                /\ Return
           ELSE /\ \E R \in PatchWrites :
                    tree' \in PatchRejects(tree, R) /\ wrote' = R
                /\ pc' = "b_find"
                /\ UNCHANGED <<exitcode, cause, cwd, cur>>
    /\ UNCHANGED <<repo, params, applied, success, rejFound, ckptTree, sigint, answer, sent, sortVars, findVars, runVars>>

\* patch(): find . -name '*.rej' -type f -print -quit; its exit status
\* (0 unless find met an error) decides: 0 is taken as "rejected hunks",
\* the artifacts are listed and script_exit(1) is called
BatchFind ==
    /\ prog = "batch" /\ pc = "b_find"
    /\ \E rc \in Status :
        IF rc = 0
        THEN /\ cmds' = cmds \o <<Cmd(cur, "find", rc), Cmd(cur, "find_list", 0)>>
             /\ rejFound' = TRUE
             /\ ScriptExit(ExitFailure, "rejected")
        ELSE /\ cmds' = Append(cmds, Cmd(cur, "find", rc))
             /\ UNCHANGED rejFound
             /\ Return
    /\ UNCHANGED <<tree, repo, params, applied, success, ckptTree, sigint, answer, sent, sortVars, findVars, runVars, wrote>>

BatchNext ==
    \/ BatchCall \/ BatchDryForward \/ BatchDryReverse
    \/ BatchGitApply \/ BatchPatch \/ BatchFind

(***************************************************************************)
(* _mixin.py: list_files, list_patches, is_bootstrap_patch.                *)
(* A patch file is [dir, base]: the directory os.walk found it in and its  *)
(* basename, a sequence of character codes (Python compares str by code    *)
(* point).                                                                 *)
(***************************************************************************)
\* ".patch"
Suffix == <<46, 112, 97, 116, 99, 104>>
BaseNames ==
    { <<49, 48, 45, 102, 111, 111>> \o Suffix,   \* 10-foo.patch
      <<50, 45, 98, 97, 114>> \o Suffix,         \* 2-bar.patch
      <<98, 97, 114>> \o Suffix,                 \* bar.patch
      <<49, 97, 98, 99>> \o Suffix,              \* 1abc.patch
      <<45, 120>> \o Suffix }                    \* -x.patch
Dirs == {"a", "b"}
PatchFiles == [dir : Dirs, base : BaseNames]

\* os.path.basename
Basename(path) == path.base

\* Python's < on str
RECURSIVE StrLess(_, _)
StrLess(a, b) ==
    IF a = <<>> THEN b # <<>>
    ELSE IF b = <<>> THEN FALSE
    ELSE IF Head(a) # Head(b) THEN Head(a) < Head(b)
    ELSE StrLess(Tail(a), Tail(b))

\* the key list_patches sorts by
SortKey(path) == Basename(path)

\* sorted(): stable, an element goes after the elements whose key is not
\* greater than its own
RECURSIVE InsertSorted(_, _)
InsertSorted(x, s) ==
    IF s = <<>> THEN <<x>>
    ELSE IF StrLess(SortKey(x), SortKey(Head(s))) THEN <<x>> \o s
    ELSE <<Head(s)>> \o InsertSorted(x, Tail(s))

RECURSIVE Sorted(_)
Sorted(s) ==
    IF s = <<>> THEN <<>>
    ELSE InsertSorted(s[Len(s)], Sorted(SubSeq(s, 1, Len(s) - 1)))

\* list_patches(root_dir, suffix)
list_patches(listing) == Sorted(listing)

IsDigit(c) == c \in 48..57

\* the number of leading digits of a name
RECURSIVE DigitPrefixLen(_)
DigitPrefixLen(s) ==
    IF s # <<>> /\ IsDigit(Head(s)) THEN 1 + DigitPrefixLen(Tail(s)) ELSE 0

\* is_bootstrap_patch: re.match(r'\d+\-.*', basename)
is_bootstrap_patch(path) ==
    LET b == Basename(path)
        n == DigitPrefixLen(b)
    IN  n >= 1 /\ Len(b) > n /\ b[n + 1] = 45

\* the caller of list_patches
ListPatches ==
    /\ prog = "sort" /\ pc = "list"
    /\ order' = list_patches(files)
    /\ pc' = "listed"
    /\ UNCHANGED <<exitcode, cause, cwd, tree, repo, params, cur, applied,
                   success, rejFound, cmds, ckptTree, sigint, answer, sent, files, findVars, runVars, wrote>>

SortNext == ListPatches

(***************************************************************************)
(* pythonlib/camoufox/battery.py: set_battery, async_set_battery.          *)
(***************************************************************************)
Args == {"enabled", "charging", "level", "charging_time", "discharging_time"}
\* the values an argument is given: the default _UNSET (the argument was
\* not supplied), None, a bool, an int, a float, a str
Values == {"UNSET", "None", "True", "1", "0.5", "x"}
Targets == {"Browser", "BrowserContext", "object"}

\* isinstance(v, bool); isinstance(v, (int, float)): a bool is an int
IsBool(v) == v = "True"
IsNumber(v) == v \in {"True", "1", "0.5"}
\* float(v)
Float(v) == IF v \in {"True", "1"} THEN "1.0" ELSE v

\* the key of the payload an argument goes to
Key(a) ==
    CASE a = "charging_time" -> "chargingTime"
      [] a = "discharging_time" -> "dischargingTime"
      [] OTHER -> a
ArgOf(k) == CHOOSE a \in Args : Key(a) = k

\* _build_payload raises TypeError
BuildRaises(kw) ==
    \/ \E a \in {"enabled", "charging"} :
          kw[a] # "UNSET" /\ kw[a] # "None" /\ ~IsBool(kw[a])
    \/ \E a \in {"level", "charging_time", "discharging_time"} :
          kw[a] # "UNSET" /\ kw[a] # "None" /\ ~IsNumber(kw[a])

\* a _build_payload that leaves out the arguments given as None
build_payload_dropNone(kw) ==
    [k \in {Key(a) : a \in {b \in Args : kw[b] \notin {"UNSET", "None"}}} |->
        IF k \in {"enabled", "charging"} THEN kw[ArgOf(k)]
        ELSE Float(kw[ArgOf(k)])]

\* _build_payload, when it returns
build_payload(kw) ==
    [k \in {Key(a) : a \in {b \in Args : kw[b] # "UNSET"}} |->
        IF k \in {"enabled", "charging"} \/ kw[ArgOf(k)] = "None"
        THEN kw[ArgOf(k)]
        ELSE Float(kw[ArgOf(k)])]

\* _get_browser_channel: the _channel of the target's implementation
\* object, or of its _browser when it has one; "" when there is none
get_browser_channel(t) ==
    IF t \in {"Browser", "BrowserContext"} THEN "browser" ELSE ""

\* set_battery / async_set_battery: the payload is built, the channel is
\* resolved, and one message is sent, without a payload when it is empty
Send(api) ==
    /\ prog = "battery" /\ pc = "bat_call"
    /\ pc' = "bat_done"
    /\ IF BuildRaises(kwargs) \/ get_browser_channel(target) = ""
       THEN raised' = "TypeError" /\ UNCHANGED msgs
       ELSE /\ msgs' = Append(msgs,
                   [api |-> api,
                    channel |-> get_browser_channel(target),
                    method |-> "Browser.setBatteryOverride",
                    has_payload |-> build_payload(kwargs) # <<>>,
                    payload |-> build_payload(kwargs)])
            /\ UNCHANGED raised
    /\ UNCHANGED <<exitcode, cause, cwd, tree, repo, params, cur, applied,
                   success, rejFound, cmds, ckptTree, sigint, answer, sortVars, findVars, runVars, wrote>>

SetBattery == Send("set_battery")
AsyncSetBattery == Send("async_set_battery")

BatteryNext == SetBattery \/ AsyncSetBattery

(***************************************************************************)
(* find_src_dir of _mixin.py.  The file system is two directories, the     *)
(* working directory "." and another one, each holding some of Names as a  *)
(* file or as a directory.                                                 *)
(***************************************************************************)
Roots == {".", "other"}
Names == {"camoufox-1-2", "camoufox-9", "notes"}
Kinds == {"none", "file", "dir"}
NoPath == [dir |-> "", name |-> ""]

\* os.path.join(root_dir, name)
Join(root, name) == [dir |-> root, name |-> name]
\* f'camoufox-{version}-{release}'
VersionedName(v, r) == IF v = "1" /\ r = "2" THEN "camoufox-1-2" ELSE "notes"
\* folder.startswith('camoufox-')
StartsWithCamoufox(name) == name \in {"camoufox-1-2", "camoufox-9"}
\* os.path.exists(path)
Exists(path) == fs[path.dir][path.name] # "none"
\* os.path.isdir(folder): a relative name is looked up in the working
\* directory
IsDir(folder) == fs["."][folder] = "dir"
\* os.listdir(root_dir) lists the names of root_dir, in any order
Orders(S) ==
    {q \in [1..Cardinality(S) -> S] : \A i, j \in DOMAIN q : q[i] = q[j] => i = j}
ListDir(root) == Orders({n \in Names : fs[root][n] # "none"})

\* the loop of find_src_dir: the first listed folder that passes the test
RECURSIVE FirstMatch(_, _)
FirstMatch(q, i) ==
    IF i > Len(q) THEN ""
    ELSE IF IsDir(q[i]) /\ StartsWithCamoufox(q[i]) THEN q[i]
    ELSE FirstMatch(q, i + 1)

\* find_src_dir(root_dir, version, release): the returned path, or the
\* exception raised
find_src_dir(root, v, r, listed) ==
    IF v # "" /\ r # ""
    THEN IF Exists(Join(root, VersionedName(v, r)))
         THEN [path |-> Join(root, VersionedName(v, r)), raised |-> "none"]
         ELSE [path |-> NoPath, raised |-> "AssertionError"]
    ELSE IF FirstMatch(listed, 1) # ""
         THEN [path |-> Join(root, FirstMatch(listed, 1)), raised |-> "none"]
         ELSE [path |-> NoPath, raised |-> "FileNotFoundError"]

\* one call of find_src_dir
FindSrcDirCall ==
    /\ prog = "find" /\ pc = "find_call"
    /\ pc' = "find_ret"
    /\ src_dir' = find_src_dir(root_dir, version, release, folders).path
    /\ raised' = find_src_dir(root_dir, version, release, folders).raised
    /\ UNCHANGED <<exitcode, cause, cwd, tree, repo, params, cur, applied,
                   success, rejFound, cmds, ckptTree, sigint, answer, msgs,
                   sortVars, fs, root_dir, version, release, folders, runVars,
                   wrote>>

FindNext == FindSrcDirCall

(***************************************************************************)
(* run of _mixin.py.                                                       *)
(***************************************************************************)
Commands == {"", "make", "git init"}
\* how a command ends: with an exit code, or killed by a signal
Outcomes == {[exit |-> 0, sig |-> 0], [exit |-> 1, sig |-> 0],
             [exit |-> 3, sig |-> 0], [exit |-> 0, sig |-> 9]}
\* os.system returns the wait status: the exit code in the high byte, the
\* signal in the low one
os_system(o) == o.exit * 256 + o.sig

\* run that exits on every failure
Fatal_always(ret, exit_on) == ret # 0
\* `if retval != 0 and exit_on_fail`
Fatal(ret, exit_on) == ret # 0 /\ exit_on

\* run(cmd, exit_on_fail, do_print); retval -1 stands for None
Run ==
    /\ prog = "run" /\ pc = "run_call"
    /\ IF cmd = ""
       THEN /\ pc' = "run_ret" /\ retval' = -1
            /\ UNCHANGED <<cmds, printed, exitcode, cause, cwd>>
       ELSE \E o \in Outcomes :
            /\ cmds' = Append(cmds, Cmd(1, cmd, os_system(o)))
            /\ IF Fatal(os_system(o), exit_on_fail)
               THEN /\ Exit(ExitFailure, "fatal")
                    /\ printed' = printed \o (IF do_print THEN <<cmd>> ELSE <<>>)
                                           \o <<"fatal error">>
                    /\ UNCHANGED retval
               ELSE /\ pc' = "run_ret"
                    /\ retval' = os_system(o)
                    /\ printed' = printed \o (IF do_print THEN <<cmd>> ELSE <<>>)
                    /\ UNCHANGED <<exitcode, cause, cwd>>
    /\ UNCHANGED <<tree, repo, params, cur, applied, success, rejFound,
                   ckptTree, sigint, answer, sent, sortVars, findVars, cmd,
                   exit_on_fail, do_print, wrote>>

RunNext == Run

(***************************************************************************)
(* The initial states.                                                     *)
(***************************************************************************)
\* the trees the run starts from: f as committed or modified, u absent or
\* untracked, conflict artifacts of an earlier run present or not
InitTrees ==
    {t \in [Paths -> Content] :
        /\ t["f"] # 0
        /\ t["u"] \in {0, 1}
        /\ \A p \in RejPaths : t[p] \in {0, 1}}

\* the trees a batch starts from: f as committed (patch() never looks at
\* other files), conflict artifacts of an earlier run present or not
BatchTrees == {t \in InitTrees : t["f"] = BaseSnapshot["f"] /\ t["u"] = 0}

InitCommon ==
    /\ exitcode = -1
    /\ cwd = "root"
    /\ is_git \in BOOLEAN
    /\ IF is_git
       THEN /\ commits = <<BaseSnapshot>> /\ index = BaseSnapshot /\ head = 1
            /\ tag \in (IF prog \in {"safe", "probe"} THEN {0, 1} ELSE {0})
       ELSE /\ commits = <<>> /\ index = NoFiles /\ head = 0 /\ tag = 0
    /\ cur = 1
    /\ applied = FALSE
    /\ success = FALSE
    /\ rejFound = FALSE
    /\ cmds = <<>>
    /\ ckptTree = NoFiles
    /\ cause = "none"
    /\ order = <<>>
    /\ sigint = ""
    /\ answer = "-"
    /\ kwargs \in (IF prog = "battery" THEN [Args -> Values]
                   ELSE {[a \in Args |-> "UNSET"]})
    /\ target \in (IF prog = "battery" THEN Targets ELSE {"object"})
    /\ msgs = <<>>
    /\ raised = "none"
    /\ tree0 = tree
    /\ tag0 = tag
    /\ src_dir = NoPath
    /\ wrote = {}
    /\ retval = -1
    /\ printed = <<>>
    /\ IF prog = "find"
       THEN /\ root_dir \in Roots
            /\ fs \in {d \in [Roots -> [Names -> Kinds]] :
                         root_dir = "." => \A n \in Names : d["other"][n] = "none"}
            /\ version \in {"", "1"}
            /\ release \in {"", "2"}
            /\ version = "" => release = ""
            /\ folders \in ListDir(root_dir)
       ELSE /\ root_dir = "."
            /\ fs = [d \in Roots |-> [n \in Names |-> "none"]]
            /\ version = "" /\ release = ""
            /\ folders = <<>>
    /\ IF prog = "run"
       THEN /\ cmd \in Commands
            /\ exit_on_fail \in BOOLEAN
            /\ do_print \in BOOLEAN
       ELSE cmd = "" /\ exit_on_fail = FALSE /\ do_print = FALSE

InitSafe ==
    /\ prog = "safe"
    /\ pc = "start"
    /\ no_revert \in BOOLEAN
    /\ reverse = FALSE
    /\ npatches = 1
    /\ tree \in InitTrees
    /\ files = <<>>
    /\ patches = <<>>
    /\ InitCommon

InitBatch ==
    /\ prog = "batch"
    /\ pc = "b_call"
    /\ no_revert = FALSE
    /\ reverse \in BOOLEAN
    /\ npatches \in 1..MaxPatches
    /\ tree \in BatchTrees
    /\ files = <<>>
    /\ patches = <<>>
    /\ InitCommon

\* the ordered patch sets that apply, one patch after the other, to the
\* tree `make setup` committed; each patch changes what the one before made
PatchSets ==
    UNION {{s \in [1..n -> Patch] :
                /\ s[1].from = BaseSnapshot["f"]
                /\ \A i \in 1..(n - 1) : s[i + 1].from = s[i].to} :
           n \in 1..MaxPatches}

\* patch() on each patch of a set that was applied before: the tree is
\* what the first application made
InitReapply ==
    /\ prog = "batch"
    /\ pc = "b_call"
    /\ no_revert = FALSE
    /\ reverse = FALSE
    /\ patches \in PatchSets
    /\ npatches = Len(patches)
    /\ tree = [BaseSnapshot EXCEPT !["f"] = patches[Len(patches)].to]
    /\ files = <<>>
    /\ InitCommon

\* is_patch_applied on a patch and a tree, called MaxProbes times
InitProbe ==
    /\ prog = "probe"
    /\ pc = "probe_fwd"
    /\ no_revert = FALSE
    /\ reverse = FALSE
    /\ npatches = 1
    /\ patches \in {<<p>> : p \in Patch}
    /\ tree \in InitTrees
    /\ files = <<>>
    /\ InitCommon

\* the directory listings: up to MaxFiles distinct patch files, in any order
Listings ==
    UNION {{l \in [1..n -> PatchFiles] : \A i, j \in 1..n : i # j => l[i] # l[j]} :
           n \in 1..MaxFiles}

InitSort ==
    /\ prog = "sort"
    /\ pc = "list"
    /\ no_revert = FALSE
    /\ reverse = FALSE
    /\ npatches = 0
    /\ tree = BaseSnapshot
    /\ files \in Listings
    /\ patches = <<>>
    /\ InitCommon
    /\ is_git

\* one call of set_battery or async_set_battery
InitBattery ==
    /\ prog = "battery"
    /\ pc = "bat_call"
    /\ no_revert = FALSE
    /\ reverse = FALSE
    /\ npatches = 0
    /\ patches = <<>>
    /\ tree = BaseSnapshot
    /\ files = <<>>
    /\ InitCommon
    /\ ~is_git

\* one call of find_src_dir
InitFind ==
    /\ prog = "find"
    /\ pc = "find_call"
    /\ no_revert = FALSE
    /\ reverse = FALSE
    /\ npatches = 0
    /\ patches = <<>>
    /\ tree = BaseSnapshot
    /\ files = <<>>
    /\ InitCommon
    /\ ~is_git

\* one call of run
InitRun ==
    /\ prog = "run"
    /\ pc = "run_call"
    /\ no_revert = FALSE
    /\ reverse = FALSE
    /\ npatches = 0
    /\ patches = <<>>
    /\ tree = BaseSnapshot
    /\ files = <<>>
    /\ InitCommon
    /\ ~is_git

Init ==
    \/ InitSafe \/ InitBatch \/ InitReapply \/ InitProbe \/ InitSort
    \/ InitBattery \/ InitFind \/ InitRun

Next ==
    \/ SafeNext \/ BatchNext \/ ProbeNext \/ SortNext \/ BatteryNext
    \/ FindNext \/ RunNext

Spec == Init /\ [][Next]_vars

\* safe-patch.py alone; it is one sequential process, and every step is
\* taken once the command it waits for has returned
SafeLive == InitSafe /\ [][SafeNext]_vars /\ WF_vars(SafeNext)

(***************************************************************************)
(* The claims.                                                             *)
(***************************************************************************)
ApplyCmds == {"git_apply", "patch"}
CmdIdx == 1..Len(cmds)
Failures == {"no_patch_file", "no_src_dir", "not_git", "not_reverted",
             "reverted", "revert_failed", "unexpected"}
\* every command of the checkpoint and of the revert ended with status 0
GitAllOk ==
    \A i \in CmdIdx :
        cmds[i].c \in {"add", "commit", "tag", "reset", "clean", "delete_rej"}
            => cmds[i].rc = 0

\* C1: in safe-patch.py main, an apply command (git apply --3way, patch
\* --fuzz) is executed only after git tag -f of create_checkpoint succeeded
\* in the same run, so that the label is attached (to HEAD); the first apply
\* command directly follows that tag command, and the tree it starts from
\* is the tree create_checkpoint was called on.
C1_CheckpointBeforeApply ==
    prog = "safe" =>
        /\ \A i \in CmdIdx : cmds[i].c \in ApplyCmds =>
              \E j \in 1..(i - 1) : cmds[j].c = "tag" /\ cmds[j].rc = 0
        /\ \A i \in CmdIdx : cmds[i].c = "git_apply" =>
              i > 1 /\ cmds[i - 1].c = "tag" /\ cmds[i - 1].rc = 0
        /\ (pc = "git_apply" \/ \E i \in CmdIdx : cmds[i].c \in ApplyCmds) => tag # 0
        /\ pc = "git_apply" => tag = head /\ tree = ckptTree

C1_Witness == prog = "safe" /\ pc = "find" /\ tag # 0 /\ tree # ckptTree

\* C2: in safe-apply without --no-revert, when the apply step reports
\* Rejected (both tiers failed, a conflict artifact exists) the run ends
\* with exit code 1, the tree is the tree that existed before the apply
\* attempt and no *.rej file remains. Stated for the runs whose checkpoint
\* and revert commands all succeeded.
C2_RejectedRestored ==
    (prog = "safe" /\ pc = "done" /\ cause = "reverted" /\ rejFound /\ GitAllOk)
        => exitcode = 1 /\ tree = ckptTree /\ ~HasRej(tree)

\* C3: create_checkpoint(label) followed, after the tree mutations of the
\* apply step, by revert_to_checkpoint(label) leaves the tree that existed
\* immediately before create_checkpoint. Stated for the reverts whose reset
\* and clean both succeeded.
C3_RoundTrip ==
    (/\ prog = "safe" /\ pc = "cleanup"
     /\ \A i \in CmdIdx : cmds[i].c \in {"reset", "clean"} => cmds[i].rc = 0)
        => tree = ckptTree

\* C4: in safe-apply, when both apply tiers returned a nonzero status and
\* no conflict artifact is found, apply_patch reports success, no revert is
\* performed and the run exits with code 0.
C4_NoArtifactIsSuccess ==
    (prog = "safe" /\ pc \in {"failed", "reset", "clean", "cleanup", "done"}
     /\ Ran("find") /\ ~rejFound /\ cause \notin {"interrupt", "unexpected"})
        => success /\ ~Ran("reset") /\ (pc = "done" => exitcode = 0)

\* C5: in patch() of _mixin.py, after the last apply command returned
\* nonzero, the process is terminated with status 1 if and only if a *.rej
\* file exists in the tree; otherwise patch() returns and the batch goes on.
C5_ExitIffArtifact ==
    (prog = "batch" /\ cmds # <<>> /\ cmds[Len(cmds)].c \in {"find", "find_list"})
        => ((pc = "done" /\ exitcode = 1) <=> HasRej(tree))

\* the fuzzy apply of patch p at place i of the history follows a failed
\* git apply --3way of the same patch
AfterFailedExact(i) ==
    \E j \in 1..(i - 1) :
        cmds[j].c = "git_apply" /\ cmds[j].p = cmds[i].p /\ cmds[j].rc # 0
ExactSucceeded(p) ==
    \E j \in CmdIdx : cmds[j].c = "git_apply" /\ cmds[j].p = p /\ cmds[j].rc = 0

\* C6 as claimed: for every forward application, in apply_patch and in
\* patch(), patch -p1 --fuzz is executed only after git apply --3way of the
\* same patch was executed and failed, and never when it succeeded.
C6_FuzzyAfterExact ==
    \A i \in CmdIdx : cmds[i].c = "patch" =>
        AfterFailedExact(i) /\ ~ExactSucceeded(cmds[i].p)

\* C6 as amended: the same in apply_patch, and in patch() when the working
\* directory is a git repository (.git exists); outside a git repository
\* patch() executes no git apply and the fuzzy apply is the first apply
\* command of the patch.
C6_FuzzyAfterExactInRepo ==
    /\ \A i \in CmdIdx : (cmds[i].c = "patch" /\ (prog = "safe" \/ is_git)) =>
          AfterFailedExact(i) /\ ~ExactSucceeded(cmds[i].p)
    /\ (prog = "batch" /\ ~is_git) => ~Ran("git_apply")

C6_Witness ==
    /\ prog = "batch" /\ is_git /\ cur = 2
    /\ \E i \in CmdIdx : cmds[i].c = "patch" /\ cmds[i].p = 2

\* the probe of patch p said AlreadyApplied
ProbedApplied(p) ==
    /\ \E i \in CmdIdx : cmds[i] = Cmd(p, "dry_fwd", 1)
    /\ \E j \in CmdIdx : cmds[j] = Cmd(p, "dry_rev", 0)
\* the patches probed so far, and the one probed last
Probed == {cmds[i].p : i \in {k \in CmdIdx : cmds[k].c = "dry_fwd"}}
LastProbed == CHOOSE p \in Probed : \A q \in Probed : q <= p
Attempted(p) ==
    \E i \in CmdIdx : cmds[i].p = p /\ cmds[i].c \in {"git_apply", "patch", "patch_rev"}

\* C7: the probe reports AlreadyApplied exactly when the forward dry-run
\* fails and the reverse dry-run succeeds (is_patch_applied returns True;
\* patch() skips the patch), not-applied otherwise, and the reverse dry-run
\* is executed only directly after the forward dry-run of the same patch
\* failed.
C7_Probe ==
    /\ \A i \in CmdIdx : cmds[i].c = "dry_rev" =>
          i > 1 /\ cmds[i - 1] = Cmd(cmds[i].p, "dry_fwd", 1)
    /\ applied <=> (Probed # {} /\ ProbedApplied(LastProbed))
    /\ (prog = "batch" /\ ~reverse) =>
          /\ \A p \in 1..npatches : ProbedApplied(p) => ~Attempted(p)
          /\ \A p \in 1..(cur - 1) : ~ProbedApplied(p) => Attempted(p)

C7_Witness == prog = "safe" /\ pc = "confirm" /\ applied

\* C8: when patch() classifies a patch of the ordered set as Rejected, the
\* process is terminated with a nonzero status at that patch and no command
\* is executed for any later patch.
C8_BatchHalt ==
    (prog = "batch" /\ rejFound) =>
        /\ pc = "done" /\ exitcode # 0 /\ exitcode # -1
        /\ \A i \in CmdIdx : cmds[i].p <= cur
        /\ cmds[Len(cmds)] = Cmd(cur, "find_list", 0)

C8_Witness ==
    prog = "batch" /\ rejFound /\ cur = 2 /\ npatches = 3 /\ pc = "done"

\* the numeric value of the digit prefix of a name
RECURSIVE DigitsValue(_, _)
DigitsValue(s, acc) ==
    IF s # <<>> /\ IsDigit(Head(s))
    THEN DigitsValue(Tail(s), 10 * acc + (Head(s) - 48))
    ELSE acc
InBatchOrder(a, b) ==
    IF is_bootstrap_patch(a) /\ is_bootstrap_patch(b)
    THEN DigitsValue(Basename(a), 0) <= DigitsValue(Basename(b), 0)
    ELSE IF is_bootstrap_patch(a) THEN TRUE
    ELSE IF is_bootstrap_patch(b) THEN FALSE
    ELSE ~StrLess(Basename(b), Basename(a))

C10_ExitCodes ==
    /\ [](prog = "safe" =>
            /\ pc # "done" => exitcode = -1 /\ cause = "none"
            /\ pc = "done" =>
                /\ exitcode \in {0, 1, 130}
                /\ exitcode = 0 <=> (success \/ cause = "declined")
                /\ success <=> cause = "applied"
                /\ exitcode = 130 <=> cause = "interrupt"
                /\ exitcode = 1 <=> cause \in Failures)
    /\ (prog = "safe" => <>(pc = "done"))

C10_Witness == prog = "safe" /\ pc = "done" /\ exitcode = 1 /\ cause = "reverted"

DryRuns == {"dry_fwd", "dry_rev"}
\* the repository is as `make setup` left it and as the run found it
RepoUntouched ==
    /\ commits = <<BaseSnapshot>> /\ head = 1 /\ index = BaseSnapshot
    /\ tag = tag0

\* C11: in safe-patch.py, when the probe said the patch is already applied
\* and the user's answer is anything but "y" or "yes" (trimmed, lowercased),
\* the run ends with exit code 0 and has changed nothing: no commit was made,
\* the label is where it was (or still absent), the only commands executed
\* are the two dry runs, and the tree is the tree the run started from.
C11_DeclineTouchesNothing ==
    (prog = "safe" /\ answer \in {"n", "", "no", "yes please"}) =>
        /\ applied
        /\ pc = "done" /\ exitcode = 0
        /\ \A i \in CmdIdx : cmds[i].c \in DryRuns
        /\ RepoUntouched
        /\ tree = tree0

C11_Witness ==
    /\ prog = "safe" /\ answer = "yes please" /\ pc = "done"
    /\ tree0 # BaseSnapshot /\ tag0 = 1

RevertCmds == {"reset", "clean", "delete_rej"}
\* the label is attached to a revision that holds the tree create_checkpoint
\* was called on
LabelIsSnapshot == tag # 0 /\ commits[tag] = ckptTree

\* C12: in safe-patch.py with --no-revert, when apply_patch failed the run
\* ends with exit code 1 without a reset, clean or artifact-cleanup command
\* (the last command is the artifact search, so the tree is as the failed
\* attempt left it), and the label resolves to the snapshot of the tree as
\* it was before the attempt.
C12_NoRevertLeavesAll ==
    (prog = "safe" /\ no_revert /\ pc = "done" /\ Ran("find")
     /\ cause \notin {"interrupt", "unexpected"}) =>
        /\ exitcode = 1
        /\ \A i \in CmdIdx : cmds[i].c \notin RevertCmds
        /\ cmds[Len(cmds)].c = "find"
        /\ LabelIsSnapshot

\* the steps of apply_patch and of the revert, and the reading of an artifact
ApplySteps == {"git_apply", "patch", "find", "failed", "reset", "clean",
               "cleanup", "show_rej"}

\* C13: in safe-patch.py, when a user interrupt arrived at a step after
\* apply_patch began (an apply tier, the artifact search and display, the
\* revert), the run ends with exit code 130 and the label resolves to a
\* snapshot of the tree as it was before the apply; when it arrived at an
\* earlier step the tree is the tree the run started from.
C13_InterruptRecoverable ==
    (prog = "safe" /\ sigint # "") =>
        IF sigint \in ApplySteps
        THEN /\ pc = "done" => exitcode = 130
             /\ LabelIsSnapshot
        ELSE tree = tree0

\* the steps of main inside `with temp_cd(src_dir)`
BodySteps == {"is_git", "probe_fwd", "probe_rev", "confirm", "add", "commit",
              "tag", "git_apply", "patch", "find", "failed", "reset", "clean",
              "cleanup"}

\* C14: in safe-patch.py the process working directory is the source tree
\* only while main is inside `with temp_cd(src_dir)`; before the body and
\* after the run has ended, with whatever exit code and for whatever
\* reason (sys.exit, exception, interrupt, src_dir missing), it is the
\* directory the run started in.
C14_TempCdRestores ==
    prog = "safe" =>
        /\ cwd = "src" <=> pc \in BodySteps
        /\ cwd = "root" <=> pc \notin BodySteps

C14_Witness ==
    /\ prog = "safe" /\ pc = "done" /\ exitcode = 130 /\ Ran("patch")
    /\ cwd = "root"

\* the repository is as the run found it
RepoAsStarted ==
    /\ tag = tag0
    /\ IF is_git
       THEN commits = <<BaseSnapshot>> /\ head = 1 /\ index = BaseSnapshot
       ELSE commits = <<>> /\ head = 0 /\ index = NoFiles
\* the calls of is_patch_applied that have returned
ProbesDone == {p \in 1..cur : p < cur \/ pc = "probe_ret"}

\* C15: as long as the only commands executed are the dry runs of the
\* probe (is_patch_applied, the probe of patch()), the tree, the index, the
\* commits and the label are those the run started with; and is_patch_applied
\* called several times in a row on the same patch and tree returns the
\* same result each time, AlreadyApplied each time when the tree holds what
\* the patch makes.
C15_ProbePure ==
    /\ (\A i \in CmdIdx : cmds[i].c \in DryRuns) =>
          tree = tree0 /\ RepoAsStarted
    /\ prog = "probe" =>
          /\ \A p, q \in ProbesDone : ProbedApplied(p) <=> ProbedApplied(q)
          /\ tree0["f"] = patches[1].to =>
                \A p \in ProbesDone : ProbedApplied(p)

C15_Witness ==
    /\ prog = "probe" /\ pc = "probe_ret" /\ cur = MaxProbes
    /\ \A p \in 1..MaxProbes : ProbedApplied(p)
    /\ tree["u"] = 1

\* C16: when patch() is called on each patch of an ordered set that was
\* applied to the tree before, no call ends the process with a nonzero
\* status and the tree stays what the first application made.
C16_ReapplyIdempotent ==
    (prog = "batch" /\ patches # <<>>) =>
        /\ exitcode \in {-1, 0}
        /\ pc = "done" => tree = tree0

\* C17: when the exact apply (git apply --3way) of a patch failed and the
\* fuzzy apply (patch --fuzz) of the same patch succeeded, the patch counts
\* as applied: no artifact search and no revert command is executed for it,
\* safe-patch.py ends with exit code 0, and patch() returns to its caller,
\* which goes on after that patch.
C17_FuzzyFallback ==
    \A i \in CmdIdx :
        (cmds[i].c = "patch" /\ cmds[i].rc = 0 /\ AfterFailedExact(i)) =>
            /\ \A j \in CmdIdx : cmds[j].p = cmds[i].p =>
                  cmds[j].c \notin {"find", "find_list"} \cup RevertCmds
            /\ prog = "safe" =>
                  pc = "done" /\ exitcode = 0 /\ success /\ i = Len(cmds)
            /\ prog = "batch" => cur > cmds[i].p

C17_Witness ==
    /\ prog = "safe" /\ pc = "done" /\ exitcode = 0
    /\ cmds[Len(cmds)] = Cmd(1, "patch", 0)
    /\ cmds[Len(cmds) - 1] = Cmd(1, "git_apply", 1)
    /\ tree["f"] # ckptTree["f"]

ResolutionFailures == {"no_patch_file", "no_src_dir", "not_git"}

\* C18: in safe-patch.py, when the patch file does not exist, the source
\* tree is not found or it is not a git repository, the run ends with exit
\* code 1 and no command (probe, checkpoint, apply, revert) was executed:
\* the tree, the commits and the label are those the run started with; and
\* outside a git repository no run ever executes a command.
C18_ResolutionFatal ==
    prog = "safe" =>
        /\ cause \in ResolutionFailures =>
              /\ pc = "done" /\ exitcode = 1
              /\ cmds = <<>>
              /\ tree = tree0 /\ RepoAsStarted
        /\ ~is_git =>
              /\ cmds = <<>>
              /\ pc \in {"start", "find_src", "temp_cd", "is_git", "done"}
              /\ tree = tree0 /\ RepoAsStarted

C18_Witness ==
    /\ prog = "safe" /\ pc = "done" /\ cause = "not_git" /\ exitcode = 1
    /\ tree["u"] = 1

\* C19: when create_checkpoint has returned (main is about to call
\* apply_patch), a revision was committed by it, on a clean tree as on a
\* dirty one, and the label resolves to that revision, which is HEAD,
\* whatever the label was attached to before.
C19_LabelOnNewCommit ==
    (prog = "safe" /\ pc = "git_apply") =>
        /\ Len(commits) = 2
        /\ head = Len(commits)
        /\ tag = head

\* C20: when create_checkpoint has returned, the revision the label
\* resolves to holds the whole working tree: no file differs from it and
\* no file is untracked.
C20_CheckpointClean ==
    (prog = "safe" /\ pc = "git_apply") =>
        /\ tag # 0
        /\ commits[tag] = tree
        /\ index = tree

\* C21: in revert_to_checkpoint, a git reset --hard that returns nonzero
\* is the last command of the run, which ends with exit code 1 without git
\* clean and without the artifact cleanup; a git reset --hard that returns
\* 0 is directly followed by git clean -fd (unless the run is cut short
\* before the next command).
C21_RevertFatal ==
    \A i \in CmdIdx : cmds[i].c = "reset" =>
        IF cmds[i].rc # 0
        THEN /\ i = Len(cmds)
             /\ pc = "done" /\ exitcode = 1 /\ cause = "revert_failed"
             /\ ~Ran("clean") /\ ~Ran("delete_rej")
        ELSE IF i = Len(cmds)
             THEN pc = "clean" \/ cause \in {"interrupt", "unexpected"}
             ELSE cmds[i + 1].c = "clean"

C21_Witness ==
    /\ prog = "safe" /\ pc = "done" /\ cause = "revert_failed"
    /\ cmds[Len(cmds)] = Cmd(1, "reset", 1) /\ HasRej(tree)

\* the orders in which a directory enumeration can yield the files of s
Enumerations(s) ==
    {q \in [1..Len(s) -> {s[i] : i \in 1..Len(s)}] :
        \A i, j \in 1..Len(s) : i # j => q[i] # q[j]}

\* C22: list_patches returns the same sequence for every order in which
\* the directory enumeration yields the same patch files, also when two
\* files in different sub-directories have the same basename.
C22_OrderDeterministic ==
    (prog = "sort" /\ pc = "listed") =>
        \A q \in Enumerations(files) : list_patches(q) = order

\* the arguments that were explicitly supplied, and those of them whose
\* type is not one the parameter takes
Supplied == {a \in Args : kwargs[a] # "UNSET"}
WrongType ==
    {a \in Supplied :
        /\ kwargs[a] # "None"
        /\ IF a \in {"enabled", "charging"} THEN kwargs[a] # "True"
           ELSE kwargs[a] \notin {"True", "1", "0.5"}}

\* C23: a call of set_battery or async_set_battery with an argument of a
\* wrong type, or with a target that has no channel, raises TypeError and
\* sends nothing; every other call sends exactly one
\* Browser.setBatteryOverride message, whose payload has a key for exactly
\* the supplied arguments (None for an argument supplied as None), and
\* which carries no payload when no argument was supplied.
C23_BatteryPayload ==
    (prog = "battery" /\ pc = "bat_done") =>
        IF WrongType # {} \/ target = "object"
        THEN raised = "TypeError" /\ msgs = <<>>
        ELSE /\ raised = "none"
             /\ Len(msgs) = 1
             /\ msgs[1].method = "Browser.setBatteryOverride"
             /\ DOMAIN msgs[1].payload = {Key(a) : a \in Supplied}
             /\ \A a \in Supplied :
                   kwargs[a] = "None" <=> msgs[1].payload[Key(a)] = "None"
             /\ msgs[1].has_payload <=> Supplied # {}

C23_Witness ==
    /\ prog = "battery" /\ pc = "bat_done" /\ Len(msgs) = 1
    /\ msgs[1].api = "async_set_battery"
    /\ kwargs["enabled"] = "None" /\ kwargs["level"] = "1"
    /\ kwargs["charging"] = "UNSET"

\* C24: in one run no command is executed twice for the same patch: the
\* exact apply and the fuzzy apply at most once each, the commands of the
\* checkpoint (add, commit, tag) and of the revert (reset, clean, artifact
\* cleanup) at most once each, each dry run at most once per probe.
C24_NoRetry ==
    \A i, j \in CmdIdx :
        (cmds[i].p = cmds[j].p /\ cmds[i].c = cmds[j].c) => i = j

C24_Witness ==
    /\ prog = "safe" /\ pc = "done" /\ cause = "reverted"
    /\ \E i \in CmdIdx : cmds[i] = Cmd(1, "git_apply", 1)
    /\ \E i \in CmdIdx : cmds[i] = Cmd(1, "clean", 1)

\* the prompt was shown: main waits for the answer, or has read it
Prompted == pc = "confirm" \/ answer # "-"
CutShort == cause \in {"interrupt", "unexpected"}

\* C25: in safe-patch.py the confirmation prompt is shown exactly when the
\* probe said AlreadyApplied; otherwise git add of create_checkpoint
\* directly follows the probe; and after the answer "y" or "yes" the run
\* goes on to create_checkpoint and, once the label is attached, to
\* apply_patch.
C25_PromptIffApplied ==
    prog = "safe" =>
        /\ Prompted => ProbedApplied(1)
        /\ (ProbedApplied(1) /\ ~CutShort) => Prompted
        /\ \A i \in CmdIdx : cmds[i].c = "add" =>
              /\ i > 1 /\ cmds[i - 1].c \in DryRuns
              /\ ProbedApplied(1) <=> answer \in {"y", "Y", " yes ", "YES"}
        /\ (answer \in {"y", "Y", " yes ", "YES"} /\ ~CutShort) =>
              /\ pc \notin {"probe_fwd", "probe_rev", "confirm"}
              /\ pc = "done" => Ran("add") /\ Ran("git_apply")

C25_Witness ==
    /\ prog = "safe" /\ answer = " yes " /\ pc = "done" /\ cause = "applied"

\* C26 as claimed: when apply_patch returned True, safe-patch.py exits with
\* code 0, no reset, clean or artifact-cleanup command was executed, and the
\* label resolves to the snapshot of the tree create_checkpoint was called
\* on, so the printed `git reset --hard <label>` restores that tree.
C26_SuccessKeepsCheckpoint ==
    (prog = "safe" /\ pc = "done" /\ cause = "applied") =>
        /\ exitcode = 0
        /\ \A i \in CmdIdx : cmds[i].c \notin RevertCmds
        /\ LabelIsSnapshot

\* the directories directly under root_dir whose name starts with camoufox-
SourceDirs == {n \in Names : StartsWithCamoufox(n) /\ fs[root_dir][n] = "dir"}

\* C27 as claimed: find_src_dir returns a directory that exists directly
\* under root_dir, or fails.  With version and release it returns
\* root_dir/camoufox-<version>-<release>, or fails when that does not
\* exist; otherwise it returns a camoufox-* directory of root_dir whenever
\* there is one and fails with FileNotFoundError only when there is none,
\* whatever root_dir is.
C27_FindSrcDir ==
    (prog = "find" /\ pc = "find_ret") =>
        /\ raised = "none" =>
              src_dir.dir = root_dir /\ fs[root_dir][src_dir.name] = "dir"
        /\ IF version # "" /\ release # ""
           THEN IF fs[root_dir]["camoufox-1-2"] = "none"
                THEN raised = "AssertionError"
                ELSE raised = "none" => src_dir.name = "camoufox-1-2"
           ELSE IF SourceDirs # {}
                THEN raised = "none" /\ src_dir.name \in SourceDirs
                ELSE raised = "FileNotFoundError"

\* the same for calls on the working directory without version and release,
\* as safe-patch.py makes them when the options are not given
C27_InWorkingDirectory ==
    (prog = "find" /\ pc = "find_ret" /\ root_dir = "."
        /\ ~(version # "" /\ release # "")) =>
        IF SourceDirs # {}
        THEN /\ raised = "none" /\ src_dir.name \in SourceDirs
             /\ src_dir.dir = root_dir
        ELSE raised = "FileNotFoundError"

\* C28: run executes a non-empty command exactly once and returns the
\* status os.system gave; with a nonzero status and exit_on_fail it ends
\* the process with status 1 and does not return; without exit_on_fail it
\* always returns; an empty command is not executed.
C28_Run ==
    (prog = "run" /\ pc # "run_call") =>
        IF cmd = ""
        THEN cmds = <<>> /\ pc = "run_ret" /\ retval = -1
        ELSE /\ Len(cmds) = 1 /\ cmds[1].c = cmd
             /\ IF cmds[1].rc # 0 /\ exit_on_fail
                THEN pc = "done" /\ exitcode = 1 /\ retval = -1
                ELSE pc = "run_ret" /\ retval = cmds[1].rc /\ exitcode = -1

C28_Witness ==
    /\ prog = "run" /\ pc = "run_ret" /\ cmd = "make" /\ ~exit_on_fail
    /\ retval = 768

\* C29 as claimed: apply_patch and patch() report rejected hunks only when
\* the patch command of this attempt wrote at least one conflict artifact;
\* an artifact that was in the tree before never makes them do so.
C29_RejectedIsOurs == rejFound => wrote # {}

\* C30 as claimed: when git apply --3way failed, the tree the patch --fuzz
\* command starts on is the tree git apply started on: in apply_patch the
\* tree create_checkpoint was called on, in patch() on the first patch of
\* the set the tree the run started from.
C30_FuzzyFromSameTree ==
    /\ (prog = "safe" /\ pc = "patch") => tree = ckptTree
    /\ (prog = "batch" /\ pc = "b_patch" /\ cur = 1) => tree = tree0
====
